---- MODULE Spec2Model ----
(***************************************************************************)
(* Model of db/splaytree.h (SplayTree and its Iterator) and db/ziptree.h   *)
(* (ZipTree and its Iterator).                                             *)
(*                                                                         *)
(* Pointers are modelled as addresses.  Null is 0.  A live SplayTree node  *)
(* is named by the key it holds (keys of live nodes are pairwise distinct  *)
(* in a single-threaded tree).  A block that was released by `delete` but  *)
(* is still referenced by some pointer is named by a stale address; its    *)
(* contents are indeterminate.  `new` either takes an unreferenced block   *)
(* or reuses such a released block, and then every pointer that still      *)
(* referred to the block refers to the new node.                           *)
(*                                                                         *)
(* The caller is one thread.  It works on one of the two containers.  It   *)
(* constructs a fresh Iterator before a mutating call (the constructor     *)
(* does not touch the tree, so no tree state is lost) and so never keeps a *)
(* positioned iterator across a mutating call.                             *)
(*                                                                         *)
(* assert(): where a condition is false the build with assertions aborts   *)
(* the process and the build with -DNDEBUG goes on; both are successors.   *)
(***************************************************************************)
EXTENDS Integers, Sequences, FiniteSets, TLC

\* ---- bounds ----
MaxKey == 4

Keys == 1..MaxKey

\* the keys, the nodes and the ranks of the ZipTree
MaxZipKey == 3

MaxZipNodes == 3

MaxRank == 2

\* the number of threads that share a SplayTree
MaxThreads == 2

\* they insert the keys 1..MaxSharedKey
MaxSharedKey == 3

ZipKeys == 1..MaxZipKey

\* ---- constants of the program ----
kMaxRank == 11

Null == 0

kLeft == 0

kRight == 1

\* addresses of released blocks that are still referenced
StaleAddr == (MaxKey + 1)..(3 * MaxKey + 1)

VARIABLES
  container,  \* the container the caller works on: "SplayTree" or "ZipTree"
  aborted,    \* TRUE once an assert() has failed and the process aborted
  root_,      \* SplayTree::root_
  size_,      \* SplayTree::size_
  nodes,      \* the SplayTree nodes: address -> Node
  deleted,    \* history: some Delete call has removed a node
  node_,      \* SplayTree::Iterator::node_
  zip,        \* the ZipTree: root_ and the nodes of the arena, address -> Node
  zip_node_,  \* ZipTree::Iterator::node_
  calls,      \* the Insert calls of the threads that share a SplayTree
  op          \* the last call: its name, argument and result

vars == <<container, aborted, root_, size_, nodes, deleted, node_, zip, zip_node_, calls, op>>

\* ---- SplayTree::Node --------------------------------------------------

\* Node(const Key &k): the state of a node after its constructor
Node(k) ==
  [inserted |-> FALSE, parent |-> Null, child |-> [s \in {kLeft, kRight} |-> Null],
   ancestor_prev |-> Null, ancestor_next |-> Null, key |-> k]

\* an address that holds no node
NoNode == Node(Null)

comparator_(a, b) == IF a < b THEN -1 ELSE IF a > b THEN 1 ELSE 0

\* The tree as the methods see it: root_, size_, the nodes, and whether
\* the condition of an assert() was false during the call.
Tree == [root_ |-> root_, size_ |-> size_, nodes |-> nodes, violated |-> FALSE]

\* assert(cond)
Expect(T, cond) == IF cond THEN T ELSE [T EXCEPT !.violated = TRUE]

\* `x' is bound to the value v in `F(x)': one statement after another
Bind(v, F(_)) == F(v)

\* ---- SplayTree::Rotate ------------------------------------------------

\* Rotate without `n->ancestor_prev = c' (line 413): the node that moves
\* down to the right keeps its old ancestor_prev.
RotateKeepsPrev(T, n, s) ==
  IF T.nodes[n].child[s] = Null THEN T
  ELSE
    Bind(1 - s, LAMBDA os :
    Bind(T.nodes[n].child[s], LAMBDA c :
    Bind([T.nodes EXCEPT ![n].child[s] = T.nodes[c].child[os]], LAMBDA N1 :
    Bind(IF N1[c].child[os] # Null
         THEN [N1 EXCEPT ![N1[c].child[os]].parent = n] ELSE N1, LAMBDA N2 :
    Bind([N2 EXCEPT ![c].parent = N2[n].parent], LAMBDA N3 :
    Bind(IF N3[n].parent = Null THEN N3
         ELSE IF N3[N3[n].parent].child[kLeft] = n
              THEN [N3 EXCEPT ![N3[n].parent].child[kLeft] = c]
              ELSE [N3 EXCEPT ![N3[n].parent].child[kRight] = c], LAMBDA N4 :
    Bind(IF s = kLeft
         THEN [N4 EXCEPT ![c].ancestor_next = N4[n].ancestor_next]
         ELSE [N4 EXCEPT ![n].ancestor_next = c,
                         ![c].ancestor_prev = N4[n].ancestor_prev], LAMBDA N5 :
      [T EXCEPT !.root_ = IF N3[n].parent = Null THEN c ELSE T.root_,
                !.nodes = [N5 EXCEPT ![c].child[os] = n, ![n].parent = c]])))))))

\* Rotate without `c->child[os]->parent = n' (line 397): the subtree that
\* changes sides keeps its old parent pointer.
RotateKeepsParent(T, n, s) ==
  IF T.nodes[n].child[s] = Null THEN T
  ELSE
    Bind(1 - s, LAMBDA os :
    Bind(T.nodes[n].child[s], LAMBDA c :
    Bind([T.nodes EXCEPT ![n].child[s] = T.nodes[c].child[os]], LAMBDA N2 :
    Bind([N2 EXCEPT ![c].parent = N2[n].parent], LAMBDA N3 :
    Bind(IF N3[n].parent = Null THEN N3
         ELSE IF N3[N3[n].parent].child[kLeft] = n
              THEN [N3 EXCEPT ![N3[n].parent].child[kLeft] = c]
              ELSE [N3 EXCEPT ![N3[n].parent].child[kRight] = c], LAMBDA N4 :
    Bind(IF s = kLeft
         THEN [N4 EXCEPT ![c].ancestor_next = N4[n].ancestor_next,
                         ![n].ancestor_prev = c]
         ELSE [N4 EXCEPT ![n].ancestor_next = c,
                         ![c].ancestor_prev = N4[n].ancestor_prev], LAMBDA N5 :
      [T EXCEPT !.root_ = IF N3[n].parent = Null THEN c ELSE T.root_,
                !.nodes = [N5 EXCEPT ![c].child[os] = n, ![n].parent = c]]))))))

Rotate(T, n, s) ==
  IF T.nodes[n].child[s] = Null THEN T
  ELSE
    Bind(1 - s, LAMBDA os :
    Bind(T.nodes[n].child[s], LAMBDA c :
    Bind([T.nodes EXCEPT ![n].child[s] = T.nodes[c].child[os]], LAMBDA N1 :
    Bind(IF N1[c].child[os] # Null
         THEN [N1 EXCEPT ![N1[c].child[os]].parent = n] ELSE N1, LAMBDA N2 :
    Bind([N2 EXCEPT ![c].parent = N2[n].parent], LAMBDA N3 :
    Bind(IF N3[n].parent = Null THEN N3
         ELSE IF N3[N3[n].parent].child[kLeft] = n
              THEN [N3 EXCEPT ![N3[n].parent].child[kLeft] = c]
              ELSE [N3 EXCEPT ![N3[n].parent].child[kRight] = c], LAMBDA N4 :
    Bind(IF s = kLeft
         THEN [N4 EXCEPT ![c].ancestor_next = N4[n].ancestor_next,
                         ![n].ancestor_prev = c]
         ELSE [N4 EXCEPT ![n].ancestor_next = c,
                         ![c].ancestor_prev = N4[n].ancestor_prev], LAMBDA N5 :
      [T EXCEPT !.root_ = IF N3[n].parent = Null THEN c ELSE T.root_,
                !.nodes = [N5 EXCEPT ![c].child[os] = n, ![n].parent = c]])))))))

\* ---- SplayTree::Splay -------------------------------------------------

\* Rotate(n->parent->parent, s1); Rotate(n->parent, s2);
RotateTwice(T, n, s1, s2) ==
  Bind(Rotate(T, T.nodes[T.nodes[n].parent].parent, s1), LAMBDA T1 :
    Rotate(T1, T1.nodes[n].parent, s2))

\* Rotate(n->parent, s1); Rotate(n->parent, s2);
RotateParents(T, n, s1, s2) ==
  Bind(Rotate(T, T.nodes[n].parent, s1), LAMBDA T1 :
    Rotate(T1, T1.nodes[n].parent, s2))

\* one iteration of the while loop of Splay, n->parent being non-null
SplayStep(T, n) ==
  Bind(T.nodes, LAMBDA N :
  Bind(N[n].parent, LAMBDA p :
  Bind(N[p].parent, LAMBDA g :
    IF g = Null
    THEN Rotate(T, p, IF n = N[p].child[kLeft] THEN kLeft ELSE kRight)
    ELSE IF n = N[p].child[kLeft] /\ p = N[g].child[kLeft]
    THEN RotateTwice(T, n, kLeft, kLeft)
    ELSE IF n = N[p].child[kRight] /\ p = N[g].child[kRight]
    THEN RotateTwice(T, n, kRight, kRight)
    ELSE IF n = N[p].child[kLeft] /\ p = N[g].child[kRight]
    THEN RotateParents(T, n, kLeft, kRight)
    ELSE RotateParents(T, n, kRight, kLeft))))

RECURSIVE Splay(_, _)
Splay(T, n) ==
  IF T.nodes[n].parent = Null THEN T ELSE Splay(SplayStep(T, n), n)

\* ---- SplayTree::UnlockFind, UnlockSubMinimum, UnlockSubMaximum --------

RECURSIVE FindFrom(_, _, _)
FindFrom(N, current, key) ==
  IF current # Null /\ N[current].inserted
  THEN IF N[current].key = key THEN current
       ELSE IF comparator_(N[current].key, key) < 0
            THEN FindFrom(N, N[current].child[kRight], key)
            ELSE FindFrom(N, N[current].child[kLeft], key)
  ELSE current

UnlockFind(T, key) == FindFrom(T.nodes, T.root_, key)

\* Delete calls Find(key), which the header does not define: the lookup of
\* UnlockFind.
Find(T, key) == UnlockFind(T, key)

\* SplayTree::Contains: the pointer returned by UnlockFind converted to bool
Contains(T, key) == UnlockFind(T, key) # Null

RECURSIVE UnlockSubMinimum(_, _)
UnlockSubMinimum(N, n) ==
  IF N[n].child[kLeft] # Null /\ N[N[n].child[kLeft]].inserted
  THEN UnlockSubMinimum(N, N[n].child[kLeft])
  ELSE n

RECURSIVE UnlockSubMaximum(_, _)
UnlockSubMaximum(N, n) ==
  IF N[n].child[kRight] # Null /\ N[N[n].child[kRight]].inserted
  THEN UnlockSubMaximum(N, N[n].child[kRight])
  ELSE n

\* ---- SplayTree::Insert ------------------------------------------------

\* The while loop of Insert (lines 114-131).  `par' and `side' name the slot
\* `current' points at: &root_ when par is Null, else &par->child[side].
\* The result tells whether the loop returned on an equal key, and if not
\* the slot reached and the node `insert' as the loop left it.
RECURSIVE InsertWalk(_, _, _, _)
InsertWalk(T, insert, par, side) ==
  Bind(IF par = Null THEN T.root_ ELSE T.nodes[par].child[side], LAMBDA cur :
    IF cur = Null
    THEN [dup |-> FALSE, insert |-> insert, par |-> par, side |-> side]
    ELSE IF comparator_(insert.key, T.nodes[cur].key) = 0
    THEN [dup |-> TRUE, insert |-> [insert EXCEPT !.parent = cur],
          par |-> par, side |-> side]
    ELSE IF comparator_(T.nodes[cur].key, insert.key) < 0
    THEN InsertWalk(T, [insert EXCEPT !.parent = cur,
                                      !.ancestor_next = T.nodes[cur].ancestor_next,
                                      !.ancestor_prev = cur], cur, kRight)
    ELSE InsertWalk(T, [insert EXCEPT !.parent = cur,
                                      !.ancestor_next = cur,
                                      !.ancestor_prev = T.nodes[cur].ancestor_prev],
                    cur, kLeft))

\* `*current = insert' (line 132): the new node, stored at address a, is
\* linked into the slot W the walk reached.
Attach(T, W, a) ==
  IF W.par = Null
  THEN [T EXCEPT !.root_ = a, !.nodes = [T.nodes EXCEPT ![a] = W.insert]]
  ELSE [T EXCEPT !.nodes = [T.nodes EXCEPT ![a] = W.insert,
                                           ![W.par].child[W.side] = a]]

\* lines 135-141 without the Splay(insert)
CommitWithoutSplay(T, a) ==
  [T EXCEPT !.nodes = [T.nodes EXCEPT ![a].inserted = TRUE],
            !.size_ = T.size_ + 1]

\* lines 135-141: Splay(insert); insert->inserted = true; ++size_
Commit(T, a) ==
  Bind(Splay(T, a), LAMBDA T1 :
    [T1 EXCEPT !.nodes = [T1.nodes EXCEPT ![a].inserted = TRUE],
               !.size_ = T1.size_ + 1])

\* Insert(key) that splays the node holding the equal key to the root
\* before it returns
InsertSplaysEqual(T, key, a) ==
  Bind(InsertWalk(T, Node(key), Null, kLeft), LAMBDA W :
    IF W.dup THEN Splay(T, W.insert.parent) ELSE Commit(Attach(T, W, a), a))

\* Insert(key), the new node being allocated at address a.  On an equal key
\* the node is deleted again and nothing else has been written.
Insert(T, key, a) ==
  Bind(InsertWalk(T, Node(key), Null, kLeft), LAMBDA W :
    IF W.dup THEN T ELSE Commit(Attach(T, W, a), a))

\* ---- SplayTree::Collect, SplayTree::Delete ----------------------------

\* the nodes of T become N
With(T, N) == [T EXCEPT !.nodes = N]

\* Collect(n): n's children are cleared and n is deleted
Collect(T, n) == With(T, [T.nodes EXCEPT ![n] = NoNode])

\* lines 163-171: n has no left child
DeleteNoLeft(T, n) ==
  Bind(T.nodes[n].child[kRight], LAMBDA r :
    IF r = Null THEN Collect([T EXCEPT !.root_ = r], n)
    ELSE
      Bind([T EXCEPT !.root_ = r, !.nodes = [T.nodes EXCEPT ![r].parent = Null]],
           LAMBDA T2 :
      Bind(Expect(T2, T2.nodes[r].ancestor_prev = n), LAMBDA T3 :
      Bind(With(T3, [T3.nodes EXCEPT ![r].ancestor_prev = Null]), LAMBDA T4 :
      Bind(Expect(T4, T4.nodes[r].ancestor_next = Null), LAMBDA T5 :
        Collect(T5, n))))))

\* lines 172-180: n has a left child and no right child
DeleteNoRight(T, n) ==
  Bind(T.nodes[n].child[kLeft], LAMBDA l :
    IF l = Null THEN Collect([T EXCEPT !.root_ = l], n)
    ELSE
      Bind([T EXCEPT !.root_ = l, !.nodes = [T.nodes EXCEPT ![l].parent = Null]],
           LAMBDA T2 :
      Bind(Expect(T2, T2.nodes[l].ancestor_next = n), LAMBDA T3 :
      Bind(With(T3, [T3.nodes EXCEPT ![l].ancestor_next = Null]), LAMBDA T4 :
      Bind(Expect(T4, T4.nodes[l].ancestor_prev = Null), LAMBDA T5 :
        Collect(T5, n))))))

\* lines 183-193: the successor c of n is n's right child
DeleteTwoNear(T, n, c) ==
  Bind(With(T, [T.nodes EXCEPT ![c].child[kLeft] = T.nodes[n].child[kLeft]]),
       LAMBDA T1 :
  Bind(With(T1, [T1.nodes EXCEPT ![T1.nodes[c].child[kLeft]].parent = c]),
       LAMBDA T2 :
  Bind(Expect(T2, T2.nodes[n].parent = Null), LAMBDA T3 :
  Bind(With(T3, [T3.nodes EXCEPT ![c].parent = Null]), LAMBDA T4 :
  Bind(Expect(T4, T4.nodes[c].ancestor_prev = n), LAMBDA T5 :
  Bind(With(T5, [T5.nodes EXCEPT ![c].ancestor_prev = Null]), LAMBDA T6 :
    Collect(T6, n)))))))

\* lines 194-217: the successor c of n lies deeper in n's right subtree
DeleteTwoFar(T, n, c) ==
  Bind(With(T, [T.nodes EXCEPT
                  ![T.nodes[c].parent].child[kLeft] = T.nodes[c].child[kRight]]),
       LAMBDA T1 :
  Bind(IF T1.nodes[c].child[kRight] # Null
       THEN With(T1, [T1.nodes EXCEPT
                        ![T1.nodes[c].child[kRight]].parent = T1.nodes[c].parent])
       ELSE T1, LAMBDA T2 :
  Bind(Expect(T2, T2.nodes[n].parent = Null), LAMBDA T3 :
  Bind(With(T3, [T3.nodes EXCEPT ![c].parent = Null]), LAMBDA T4 :
  Bind(With(T4, [T4.nodes EXCEPT ![c].child[kRight] = T4.nodes[n].child[kRight]]),
       LAMBDA T5 :
  Bind(With(T5, [T5.nodes EXCEPT ![T5.nodes[c].child[kRight]].parent = c]),
       LAMBDA T6 :
  Bind(Expect(T6, T6.nodes[T6.nodes[c].child[kRight]].ancestor_prev = n),
       LAMBDA T7 :
  Bind(With(T7, [T7.nodes EXCEPT ![T7.nodes[c].child[kRight]].ancestor_prev = c]),
       LAMBDA T8 :
  Bind(With(T8, [T8.nodes EXCEPT ![c].child[kLeft] = T8.nodes[n].child[kLeft]]),
       LAMBDA T9 :
  Bind(With(T9, [T9.nodes EXCEPT ![T9.nodes[c].child[kLeft]].parent = c]),
       LAMBDA T10 :
  Bind(Expect(T10, T10.nodes[T10.nodes[c].child[kLeft]].ancestor_next = n),
       LAMBDA T11 :
  Bind(With(T11, [T11.nodes EXCEPT ![T11.nodes[c].child[kLeft]].ancestor_next = c]),
       LAMBDA T12 :
    Collect(T12, n)))))))))))))

\* lines 181-219: n has both children
DeleteTwo(T, n) ==
  Bind(UnlockSubMinimum(T.nodes, T.nodes[n].child[kRight]), LAMBDA c :
  Bind(IF T.nodes[c].parent = n THEN DeleteTwoNear(T, n, c)
       ELSE DeleteTwoFar(T, n, c), LAMBDA T1 :
    [T1 EXCEPT !.root_ = c]))

\* lines 159-221 of Delete, n being the node that Find returned
Unlink(T, n) ==
  Bind(Splay(T, n), LAMBDA T1 :
  Bind(Expect(T1, T1.root_ = n), LAMBDA T2 :
  Bind(Expect(T2, T2.nodes[n].parent = Null), LAMBDA T3 :
  Bind(IF T3.nodes[n].child[kLeft] = Null THEN DeleteNoLeft(T3, n)
       ELSE IF T3.nodes[n].child[kRight] = Null THEN DeleteNoRight(T3, n)
       ELSE DeleteTwo(T3, n), LAMBDA T4 :
    [T4 EXCEPT !.size_ = T4.size_ - 1]))))

\* Delete(key) that splays the left child of the root when the key is not
\* found
DeleteSplaysOnMiss(T, key) ==
  Bind(Find(T, key), LAMBDA n :
    IF n = Null
    THEN [tree |-> IF T.root_ = Null \/ T.nodes[T.root_].child[kLeft] = Null
                   THEN T ELSE Splay(T, T.nodes[T.root_].child[kLeft]),
          ret |-> FALSE, n |-> Null]
    ELSE [tree |-> Unlink(T, n), ret |-> TRUE, n |-> n])

\* Delete(key): the tree it leaves, the value it returns and the node it
\* has deleted
Delete(T, key) ==
  Bind(Find(T, key), LAMBDA n :
    IF n = Null THEN [tree |-> T, ret |-> FALSE, n |-> Null]
    ELSE [tree |-> Unlink(T, n), ret |-> TRUE, n |-> n])

\* ---- neighbour queries: First, Last, UnlockNext, UnlockPrev ------------

\* p->inserted.  Reading it in a released block is a read of indeterminate
\* memory: either value.
InsertedAt(N, p) == IF p \in StaleAddr THEN BOOLEAN ELSE {N[p].inserted}

First(T) ==
  IF T.root_ # Null /\ T.nodes[T.root_].child[kLeft] # Null
  THEN UnlockSubMinimum(T.nodes, T.nodes[T.root_].child[kLeft])
  ELSE T.root_

Last(T) ==
  IF T.root_ # Null /\ T.nodes[T.root_].child[kRight] # Null
  THEN UnlockSubMaximum(T.nodes, T.nodes[T.root_].child[kRight])
  ELSE T.root_

\* UnlockNext that returns the right child instead of the minimum of the
\* right subtree
UnlockNextRightChild(N, node) ==
  IF N[node].child[kRight] # Null /\ N[N[node].child[kRight]].inserted
  THEN {N[node].child[kRight]}
  ELSE IF N[node].ancestor_next # Null
  THEN {IF b THEN N[node].ancestor_next ELSE Null :
          b \in InsertedAt(N, N[node].ancestor_next)}
  ELSE {Null}

\* the values UnlockNext(node) can return
UnlockNext(N, node) ==
  IF N[node].child[kRight] # Null /\ N[N[node].child[kRight]].inserted
  THEN {UnlockSubMinimum(N, N[node].child[kRight])}
  ELSE IF N[node].ancestor_next # Null
  THEN {IF b THEN N[node].ancestor_next ELSE Null :
          b \in InsertedAt(N, N[node].ancestor_next)}
  ELSE {Null}

\* the values UnlockPrev(node) can return
UnlockPrev(N, node) ==
  IF N[node].child[kLeft] # Null /\ N[N[node].child[kLeft]].inserted
  THEN {UnlockSubMaximum(N, N[node].child[kLeft])}
  ELSE IF N[node].ancestor_prev # Null
  THEN {IF b THEN N[node].ancestor_prev ELSE Null :
          b \in InsertedAt(N, N[node].ancestor_prev)}
  ELSE {Null}

\* the while loop of UnlockFindGreaterOrEqual (lines 295-305): the values of
\* current and prev when it ends
RECURSIVE GreaterOrEqualWalk(_, _, _, _)
GreaterOrEqualWalk(N, current, prev, key) ==
  IF current # Null /\ N[current].inserted
  THEN IF comparator_(N[current].key, key) = 0
       THEN [current |-> current, prev |-> current]
       ELSE IF comparator_(N[current].key, key) < 0
            THEN GreaterOrEqualWalk(N, N[current].child[kRight], current, key)
            ELSE GreaterOrEqualWalk(N, N[current].child[kLeft], current, key)
  ELSE [current |-> current, prev |-> prev]

\* the values UnlockFindGreaterOrEqual(key) can return
UnlockFindGreaterOrEqual(T, key) ==
  LET W == GreaterOrEqualWalk(T.nodes, T.root_, Null, key)
  IN IF W.current # Null /\ T.nodes[W.current].inserted THEN {W.current}
     ELSE IF W.prev = Null THEN {Null}
     ELSE IF comparator_(key, T.nodes[W.prev].key) < 0 THEN {W.prev}
     ELSE UnlockNext(T.nodes, W.prev)

\* ---- new and delete ---------------------------------------------------

\* the thread pointers of the nodes, in the order of the addresses
Threads(N) ==
  [i \in 1..(2 * MaxKey) |->
     IF i % 2 = 1 THEN N[(i + 1) \div 2].ancestor_prev ELSE N[i \div 2].ancestor_next]

\* the pointers held by the nodes
Pointers(N) ==
  UNION {{N[a].parent, N[a].child[kLeft], N[a].child[kRight],
          N[a].ancestor_prev, N[a].ancestor_next} : a \in Keys}

\* every pointer to block `from' becomes a pointer to block `to'
Redirect(N, from, to) ==
  LET R(p) == IF p = from THEN to ELSE p
  IN [a \in Keys |->
        [N[a] EXCEPT !.parent = R(@), !.child = [s \in {kLeft, kRight} |-> R(@[s])],
                     !.ancestor_prev = R(@), !.ancestor_next = R(@)]]

\* Released blocks have no order: they are renumbered in the order in which
\* the thread pointers first refer to them.
Renumber(N) ==
  LET F == Threads(N)
      S == {F[i] : i \in 1..(2 * MaxKey)} \cap StaleAddr
      first(x) == CHOOSE i \in 1..(2 * MaxKey) :
                    F[i] = x /\ \A j \in 1..(i - 1) : F[j] # x
      R(p) == IF p \in S
              THEN MaxKey + Cardinality({t \in S : first(t) <= first(p)})
              ELSE p
  IN [a \in Keys |-> [N[a] EXCEPT !.ancestor_prev = R(@), !.ancestor_next = R(@)]]

\* delete n: the released block n, when still referenced, gets a stale
\* address that is not in use
Release(N, n) ==
  IF n \in Pointers(N)
  THEN Renumber(Redirect(N, n, CHOOSE s \in StaleAddr : s \notin Pointers(N)))
  ELSE N

\* new Node: the released blocks it can reuse and so make a difference, those
\* some pointer refers to (Null: none of them)
Reusable(N) == {Null} \cup (Pointers(N) \cap StaleAddr)

\* ---- ZipTree ----------------------------------------------------------

\* ZipTree::Node(k, r)
ZipNode(k, r) == [key |-> k, rank |-> r, left |-> Null, right |-> Null, parent |-> Null]

compare_(a, b) == IF a < b THEN -1 ELSE IF a > b THEN 1 ELSE 0

\* the values RandomRank() returns, up to the bound of the model
Ranks == {r \in 0..kMaxRank : r <= MaxRank}

\* RecursiveInsert with `x->rank <= root->rank' in place of
\* `x->rank < root->rank' (line 108) on the left side
RECURSIVE RecursiveInsertLoose(_, _, _)
RecursiveInsertLoose(N, x, root) ==
  IF root = Null THEN [nodes |-> N, ret |-> x]
  ELSE IF compare_(N[x].key, N[root].key) < 0
  THEN LET R == RecursiveInsertLoose(N, x, N[root].left)
           M == R.nodes
       IN IF R.ret = x
          THEN IF M[x].rank <= M[root].rank
               THEN [nodes |-> [M EXCEPT ![root].left = x, ![x].parent = root],
                     ret |-> root]
               ELSE LET M1 == [M EXCEPT ![x].parent = M[root].parent]
                        xr == M1[x].right
                        M2 == [M1 EXCEPT ![root].left = xr]
                        M3 == IF xr # Null THEN [M2 EXCEPT ![xr].parent = root] ELSE M2
                        M4 == [M3 EXCEPT ![x].right = root, ![root].parent = x]
                    IN [nodes |-> M4, ret |-> x]
          ELSE [nodes |-> M, ret |-> root]
  ELSE LET R == RecursiveInsertLoose(N, x, N[root].right)
           M == R.nodes
       IN IF R.ret = x
          THEN IF M[x].rank <= M[root].rank
               THEN [nodes |-> [M EXCEPT ![root].right = x, ![x].parent = root],
                     ret |-> root]
               ELSE LET M1 == [M EXCEPT ![x].parent = M[root].parent]
                        xl == M1[x].left
                        M2 == [M1 EXCEPT ![root].right = xl]
                        M3 == IF xl # Null THEN [M2 EXCEPT ![xl].parent = root] ELSE M2
                        M4 == [M3 EXCEPT ![x].left = root, ![root].parent = x]
                    IN [nodes |-> M4, ret |-> x]
          ELSE [nodes |-> M, ret |-> root]

\* RecursiveInsert with `x->rank < root->rank' in place of
\* `x->rank <= root->rank' (line 124) on the right side
RECURSIVE RecursiveInsertStrict(_, _, _)
RecursiveInsertStrict(N, x, root) ==
  IF root = Null THEN [nodes |-> N, ret |-> x]
  ELSE IF compare_(N[x].key, N[root].key) < 0
  THEN LET R == RecursiveInsertStrict(N, x, N[root].left)
           M == R.nodes
       IN IF R.ret = x
          THEN IF M[x].rank < M[root].rank
               THEN [nodes |-> [M EXCEPT ![root].left = x, ![x].parent = root],
                     ret |-> root]
               ELSE LET M1 == [M EXCEPT ![x].parent = M[root].parent]
                        xr == M1[x].right
                        M2 == [M1 EXCEPT ![root].left = xr]
                        M3 == IF xr # Null THEN [M2 EXCEPT ![xr].parent = root] ELSE M2
                        M4 == [M3 EXCEPT ![x].right = root, ![root].parent = x]
                    IN [nodes |-> M4, ret |-> x]
          ELSE [nodes |-> M, ret |-> root]
  ELSE LET R == RecursiveInsertStrict(N, x, N[root].right)
           M == R.nodes
       IN IF R.ret = x
          THEN IF M[x].rank < M[root].rank
               THEN [nodes |-> [M EXCEPT ![root].right = x, ![x].parent = root],
                     ret |-> root]
               ELSE LET M1 == [M EXCEPT ![x].parent = M[root].parent]
                        xl == M1[x].left
                        M2 == [M1 EXCEPT ![root].right = xl]
                        M3 == IF xl # Null THEN [M2 EXCEPT ![xl].parent = root] ELSE M2
                        M4 == [M3 EXCEPT ![x].left = root, ![root].parent = x]
                    IN [nodes |-> M4, ret |-> x]
          ELSE [nodes |-> M, ret |-> root]

\* RecursiveInsert(x, root): the nodes it leaves and the pointer it returns
RECURSIVE RecursiveInsert(_, _, _)
RecursiveInsert(N, x, root) ==
  IF root = Null THEN [nodes |-> N, ret |-> x]
  ELSE IF compare_(N[x].key, N[root].key) < 0
  THEN LET R == RecursiveInsert(N, x, N[root].left)
           M == R.nodes
       IN IF R.ret = x
          THEN IF M[x].rank < M[root].rank
               THEN [nodes |-> [M EXCEPT ![root].left = x, ![x].parent = root],
                     ret |-> root]
               ELSE LET M1 == [M EXCEPT ![x].parent = M[root].parent]
                        xr == M1[x].right
                        M2 == [M1 EXCEPT ![root].left = xr]
                        M3 == IF xr # Null THEN [M2 EXCEPT ![xr].parent = root] ELSE M2
                        M4 == [M3 EXCEPT ![x].right = root, ![root].parent = x]
                    IN [nodes |-> M4, ret |-> x]
          ELSE [nodes |-> M, ret |-> root]
  ELSE LET R == RecursiveInsert(N, x, N[root].right)
           M == R.nodes
       IN IF R.ret = x
          THEN IF M[x].rank <= M[root].rank
               THEN [nodes |-> [M EXCEPT ![root].right = x, ![x].parent = root],
                     ret |-> root]
               ELSE LET M1 == [M EXCEPT ![x].parent = M[root].parent]
                        xl == M1[x].left
                        M2 == [M1 EXCEPT ![root].right = xl]
                        M3 == IF xl # Null THEN [M2 EXCEPT ![xl].parent = root] ELSE M2
                        M4 == [M3 EXCEPT ![x].left = root, ![root].parent = x]
                    IN [nodes |-> M4, ret |-> x]
          ELSE [nodes |-> M, ret |-> root]

\* The arena: NewNode(key, rank) takes the next address.
NewNode(N, key, rank) == Append(N, ZipNode(key, rank))

\* ZipTree::Insert(key), RandomRank() having returned rank
ZipInsert(Z, key, rank) ==
  LET N1 == NewNode(Z.nodes, key, rank)
      R  == RecursiveInsert(N1, Len(N1), Z.root_)
  IN [root_ |-> R.ret, nodes |-> R.nodes]

\* ZipTree::Find
RECURSIVE ZipFind(_, _, _)
ZipFind(N, current, key) ==
  IF current = Null THEN Null
  ELSE IF compare_(key, N[current].key) = 0 THEN current
  ELSE IF compare_(key, N[current].key) < 0 THEN ZipFind(N, N[current].left, key)
  ELSE ZipFind(N, N[current].right, key)

ZipContains(Z, key) == ZipFind(Z.nodes, Z.root_, key) # Null

\* ZipTree::size(Node*)
RECURSIVE size(_, _)
size(N, root) ==
  IF root = Null THEN 0 ELSE size(N, N[root].left) + size(N, N[root].right) + 1

\* ZipTree::CheckConsistency(Node* root); && does not evaluate its right
\* operand when the left one is false
RECURSIVE CheckConsistency(_, _)
CheckConsistency(N, root) ==
  IF root = Null THEN TRUE
  ELSE /\ N[root].parent # Null =>
            (root = N[N[root].parent].left \/ root = N[N[root].parent].right)
       /\ N[root].left # Null =>
            /\ compare_(N[N[root].left].key, N[root].key) < 0
            /\ CheckConsistency(N, N[root].left)
       /\ N[root].right # Null =>
            /\ compare_(N[N[root].right].key, N[root].key) > 0
            /\ CheckConsistency(N, N[root].right)

\* the `while (cursor) { node_ = cursor; cursor = cursor->left; }' loop:
\* the value of node_ when it ends
RECURSIVE DownLeft(_, _, _)
DownLeft(N, cursor, node) ==
  IF cursor = Null THEN node ELSE DownLeft(N, N[cursor].left, cursor)

RECURSIVE DownRight(_, _, _)
DownRight(N, cursor, node) ==
  IF cursor = Null THEN node ELSE DownRight(N, N[cursor].right, cursor)

\* the `while (parent && node_ == parent->right)' loop of Next and what
\* follows it: the value of node_
RECURSIVE UpFromRight(_, _, _)
UpFromRight(N, node, parent) ==
  IF parent # Null /\ node = N[parent].right
  THEN UpFromRight(N, parent, N[parent].parent)
  ELSE IF parent # Null /\ node = N[parent].left THEN parent ELSE Null

RECURSIVE UpFromLeft(_, _, _)
UpFromLeft(N, node, parent) ==
  IF parent # Null /\ node = N[parent].left
  THEN UpFromLeft(N, parent, N[parent].parent)
  ELSE IF parent # Null /\ node = N[parent].right THEN parent ELSE Null

\* ZipTree::Iterator::Next on a valid iterator: the new node_ and whether
\* the condition of an assert() was false
ZipNext(Z, node) ==
  LET N == Z.nodes
  IN IF N[node].right # Null
     THEN [node_ |-> DownLeft(N, N[node].right, node), violated |-> FALSE]
     ELSE IF N[node].parent # Null
     THEN IF node = N[N[node].parent].right
          THEN [node_ |-> UpFromRight(N, node, N[node].parent), violated |-> FALSE]
          ELSE [node_ |-> N[node].parent,
                violated |-> N[N[node].parent].left # node]
     ELSE [node_ |-> Null, violated |-> node # Z.root_]

\* ZipTree::Iterator::Prev on a valid iterator: the new node_
ZipPrev(Z, node) ==
  LET N == Z.nodes
  IN IF N[node].left # Null THEN DownRight(N, N[node].left, node)
     ELSE IF N[node].parent # Null
     THEN IF node = N[N[node].parent].left
          THEN UpFromLeft(N, node, N[node].parent)
          ELSE N[node].parent
     ELSE Null

\* the while loop of Seek (lines 241-251): node_ when it ends and whether it
\* ended by the return on an equal key
RECURSIVE SeekWalk(_, _, _, _)
SeekWalk(N, cursor, node, target) ==
  IF cursor = Null THEN [node_ |-> node, found |-> FALSE]
  ELSE IF compare_(target, N[cursor].key) = 0 THEN [node_ |-> cursor, found |-> TRUE]
  ELSE IF compare_(target, N[cursor].key) < 0
       THEN SeekWalk(N, N[cursor].left, cursor, target)
       ELSE SeekWalk(N, N[cursor].right, cursor, target)

\* Seek(target) without the call of Next() at its end
ZipSeekWithoutNext(Z, node, target) ==
  [node_ |-> SeekWalk(Z.nodes, Z.root_, node, target).node_, violated |-> FALSE]

\* ZipTree::Iterator::Seek(target), node_ being `node' before the call
ZipSeek(Z, node, target) ==
  LET W == SeekWalk(Z.nodes, Z.root_, node, target)
  IN IF W.found \/ W.node_ = Null THEN [node_ |-> W.node_, violated |-> FALSE]
     ELSE IF compare_(target, Z.nodes[W.node_].key) > 0 THEN ZipNext(Z, W.node_)
     ELSE [node_ |-> W.node_, violated |-> FALSE]

ZipSeekToFirst(Z, node) == DownLeft(Z.nodes, Z.root_, node)

ZipSeekToLast(Z, node) == DownRight(Z.nodes, Z.root_, node)

\* The addresses the arena hands out carry no meaning: the nodes are
\* renumbered in the order of an in-order walk of the tree.
RECURSIVE Walk(_, _)
Walk(N, root) ==
  IF root = Null THEN <<>>
  ELSE Walk(N, N[root].left) \o <<root>> \o Walk(N, N[root].right)

InTreeOrder(Z) ==
  LET W == Walk(Z.nodes, Z.root_)
      at(p) == IF p = Null THEN Null ELSE CHOOSE i \in 1..Len(W) : W[i] = p
  IN IF Len(W) # Len(Z.nodes) THEN Z
     ELSE [root_ |-> at(Z.root_),
           nodes |-> [i \in 1..Len(W) |->
                        [Z.nodes[W[i]] EXCEPT !.left = at(@), !.right = at(@),
                                              !.parent = at(@)]]]

\* ---- the calls --------------------------------------------------------

\* the threads that share a SplayTree
Thread == 1..MaxThreads

\* the keys they insert
SharedKeys == {k \in Keys : k <= MaxSharedKey}

\* a thread that is in no call
\* (n: the node Find returned to Delete; freed: the node the call holds a
\* pointer to, n or insert, has been deleted by another call)
NoCall ==
  [pc |-> "idle", key |-> Null, par |-> Null, side |-> kLeft, insert |-> NoNode,
   n |-> Null, freed |-> FALSE]

InitSplayTree ==
  /\ container = "SplayTree"
  /\ aborted = FALSE
  /\ root_ = Null
  /\ size_ = 0
  /\ nodes = [a \in Keys |-> NoNode]
  /\ deleted = FALSE
  /\ node_ = Null
  /\ zip = [root_ |-> Null, nodes |-> <<>>]
  /\ zip_node_ = Null
  /\ calls = [t \in Thread |-> NoCall]
  /\ op = [name |-> "new", key |-> Null, ret |-> Null]

InitZipTree ==
  /\ container = "ZipTree"
  /\ aborted = FALSE
  /\ root_ = Null
  /\ size_ = 0
  /\ nodes = [a \in Keys |-> NoNode]
  /\ deleted = FALSE
  /\ node_ = Null
  /\ zip = [root_ |-> Null, nodes |-> <<>>]
  /\ zip_node_ = Null
  /\ calls = [t \in Thread |-> NoCall]
  /\ op = [name |-> "new", key |-> Null, ret |-> Null]

Init == InitSplayTree \/ InitZipTree

\* the caller may make a mutating call
MayMutate == ~aborted /\ op.name \in {"new", "Iterator"}

splay_vars == <<root_, size_, nodes, deleted, node_>>

zip_vars == <<zip, zip_node_>>

\* SplayTree::Iterator::Iterator(tree)
CallIterator ==
  /\ ~aborted
  /\ container = "SplayTree"
  /\ node_' = Null
  /\ op' = [name |-> "Iterator", key |-> Null, ret |-> Null]
  /\ UNCHANGED <<container, aborted, root_, size_, nodes, deleted, zip_vars, calls>>

\* the call leaves the tree T
Leaves(T) ==
  /\ root_' = T.root_
  /\ size_' = T.size_
  /\ nodes' = T.nodes

\* tree.Insert(key) of a key that is in the tree
CallInsertEqual(key) ==
  /\ MayMutate
  /\ container = "SplayTree"
  /\ InsertWalk(Tree, Node(key), Null, kLeft).dup
  /\ Leaves(Insert(Tree, key, key))
  /\ op' = [name |-> "Insert", key |-> key, ret |-> FALSE]
  /\ UNCHANGED <<container, aborted, deleted, node_, zip_vars, calls>>

\* tree.Insert(key) of a key that is not in the tree; the node is allocated
\* in the released block b when b is not Null
CallInsert(key, b) ==
  /\ MayMutate
  /\ container = "SplayTree"
  /\ ~InsertWalk(Tree, Node(key), Null, kLeft).dup
  /\ Bind(Insert(IF b = Null THEN Tree ELSE With(Tree, Redirect(nodes, b, key)),
                 key, key),
          LAMBDA T1 : Leaves(With(T1, Renumber(T1.nodes))))
  /\ op' = [name |-> "Insert", key |-> key, ret |-> TRUE]
  /\ UNCHANGED <<container, aborted, deleted, node_, zip_vars, calls>>

\* tree.Delete(key) that returns
CallDelete(key) ==
  /\ MayMutate
  /\ container = "SplayTree"
  /\ Bind(Delete(Tree, key), LAMBDA D :
       /\ Leaves(IF D.ret THEN With(D.tree, Release(D.tree.nodes, D.n)) ELSE D.tree)
       /\ deleted' = (deleted \/ D.ret)
       /\ op' = [name |-> "Delete", key |-> key, ret |-> D.ret])
  /\ UNCHANGED <<container, aborted, node_, zip_vars, calls>>

\* tree.Delete(key) in which an assert() fails: the process aborts
CallDeleteAbort(key) ==
  /\ MayMutate
  /\ container = "SplayTree"
  /\ Delete(Tree, key).tree.violated
  /\ aborted' = TRUE
  /\ op' = [name |-> "Delete", key |-> key, ret |-> Null]
  /\ UNCHANGED <<container, splay_vars, zip_vars, calls>>

\* the iterator is left on node r by the call `name' with argument arg
Positioned(name, arg, r) ==
  /\ ~aborted
  /\ container = "SplayTree"
  /\ node_' = r
  /\ op' = [name |-> name, key |-> arg, ret |-> r]
  /\ UNCHANGED <<container, aborted, root_, size_, nodes, deleted, zip_vars, calls>>

CallSeekToFirst == Positioned("SeekToFirst", Null, First(Tree))

CallSeekToLast == Positioned("SeekToLast", Null, Last(Tree))

CallSeek(target) ==
  \E r \in UnlockFindGreaterOrEqual(Tree, target) : Positioned("Seek", target, r)

\* iter.Next(), called on a valid iterator whose node has not been released
CallNext ==
  /\ node_ \in Keys
  /\ \E r \in UnlockNext(nodes, node_) : Positioned("Next", node_, r)

\* iter.Prev(), called on a valid iterator whose node has not been released
CallPrev ==
  /\ node_ \in Keys
  /\ \E r \in UnlockPrev(nodes, node_) : Positioned("Prev", node_, r)

\* ZipTree::Iterator::Iterator(tree)
CallZipIterator ==
  /\ ~aborted
  /\ container = "ZipTree"
  /\ zip_node_' = Null
  /\ op' = [name |-> "Iterator", key |-> Null, ret |-> Null]
  /\ UNCHANGED <<container, aborted, splay_vars, zip, calls>>

\* tree.Insert(key) on the ZipTree, RandomRank() returning rank
CallZipInsert(key, rank) ==
  /\ MayMutate
  /\ container = "ZipTree"
  /\ Len(zip.nodes) < MaxZipNodes
  /\ zip' = InTreeOrder(ZipInsert(zip, key, rank))
  /\ op' = [name |-> "Insert", key |-> key, ret |-> rank]
  /\ UNCHANGED <<container, aborted, splay_vars, zip_node_, calls>>

\* the ZipTree iterator is left on node R.node_ by the call `name' with
\* argument arg, unless an assert() failed and the process aborted
ZipPositioned(name, arg, R) ==
  /\ ~aborted
  /\ container = "ZipTree"
  /\ aborted' \in (IF R.violated THEN BOOLEAN ELSE {FALSE})
  /\ zip_node_' = R.node_
  /\ op' = [name |-> name, key |-> arg, ret |-> R.node_]
  /\ UNCHANGED <<container, splay_vars, zip, calls>>

CallZipSeekToFirst ==
  ZipPositioned("SeekToFirst", Null,
                [node_ |-> ZipSeekToFirst(zip, zip_node_), violated |-> FALSE])

CallZipSeekToLast ==
  ZipPositioned("SeekToLast", Null,
                [node_ |-> ZipSeekToLast(zip, zip_node_), violated |-> FALSE])

CallZipSeek(target) == ZipPositioned("Seek", target, ZipSeek(zip, zip_node_, target))

\* iter.Next(), called on a valid iterator
CallZipNext ==
  /\ zip_node_ # Null
  /\ ZipPositioned("Next", zip_node_, ZipNext(zip, zip_node_))

\* iter.Prev(), called on a valid iterator
CallZipPrev ==
  /\ zip_node_ # Null
  /\ ZipPositioned("Prev", zip_node_,
                   [node_ |-> ZipPrev(zip, zip_node_), violated |-> FALSE])

\* ---- threads that share a SplayTree ----------------------------------

InitShared ==
  /\ container = "SharedSplayTree"
  /\ aborted = FALSE
  /\ root_ = Null
  /\ size_ = 0
  /\ nodes = [a \in Keys |-> NoNode]
  /\ deleted = FALSE
  /\ node_ = Null
  /\ zip = [root_ |-> Null, nodes |-> <<>>]
  /\ zip_node_ = Null
  /\ calls = [t \in Thread |-> NoCall]
  /\ op = [name |-> "new", key |-> Null, ret |-> Null]

\* the threads that hold rwlock_ shared: an Insert call between line 110
\* and line 133
Readers == {t \in Thread : calls[t].pc \in {"walk", "store"}}

\* the threads that hold rwlock_ exclusively: an Insert call after line 135,
\* a Delete call after line 159
Writers == {t \in Thread : calls[t].pc \in {"splay", "unlink"}}

\* the process has not aborted
Running == container = "SharedSplayTree" /\ ~aborted

\* port::RWLockRDGuard: the shared lock is granted when no thread holds
\* the lock exclusively
MayLockShared == Writers = {}

\* port::RWLockWRGuard: the exclusive lock is granted when no thread holds
\* the lock
MayLockExclusive == Readers = {} /\ Writers = {}

\* the slot `current' points at in the call c: &root_ when c.par is Null,
\* else &c.par->child[c.side]
Slot(c) == IF c.par = Null THEN root_ ELSE nodes[c.par].child[c.side]

\* the call of thread t becomes c; the step belongs to Insert(key)
Continues(t, c, key) ==
  /\ calls' = [calls EXCEPT ![t] = c]
  /\ op' = [name |-> "Insert", key |-> key, ret |-> Null]

\* lines 108-111 of Insert(key): the node is allocated, the shared lock
\* taken, and current = &root_.  The threads insert keys that no node holds
\* and no other call is working on, and begin no Insert once a Delete has
\* removed a node.
InsertBegin(t, key) ==
  /\ Running
  /\ calls[t].pc = "idle"
  /\ ~deleted
  /\ nodes[key] = NoNode
  /\ \A u \in Thread : calls[u].key # key
  /\ MayLockShared
  /\ Continues(t, [NoCall EXCEPT !.pc = "walk", !.key = key, !.insert = Node(key)], key)
  /\ UNCHANGED <<container, aborted, splay_vars, zip_vars>>

\* one evaluation of `while (*current)' (line 114) and, the slot holding a
\* node, the body of the loop (lines 115-130)
InsertDescend(t) ==
  /\ Running
  /\ calls[t].pc = "walk"
  /\ Bind(calls[t], LAMBDA c :
     Bind(Slot(c), LAMBDA cur :
       IF cur = Null
       THEN Continues(t, [c EXCEPT !.pc = "store"], c.key)
       ELSE IF comparator_(c.key, nodes[cur].key) = 0
       THEN Continues(t, NoCall, c.key)
       ELSE IF comparator_(nodes[cur].key, c.key) < 0
       THEN Continues(t, [c EXCEPT !.par = cur, !.side = kRight,
                                   !.insert.parent = cur,
                                   !.insert.ancestor_next = nodes[cur].ancestor_next,
                                   !.insert.ancestor_prev = cur], c.key)
       ELSE Continues(t, [c EXCEPT !.par = cur, !.side = kLeft,
                                   !.insert.parent = cur,
                                   !.insert.ancestor_next = cur,
                                   !.insert.ancestor_prev = nodes[cur].ancestor_prev],
                      c.key)))
  /\ UNCHANGED <<container, aborted, splay_vars, zip_vars>>

\* `*current = insert; insert_guard.Unlock()' (lines 132-133)
InsertStore(t) ==
  /\ Running
  /\ calls[t].pc = "store"
  /\ Leaves(Attach(Tree, calls[t], calls[t].key))
  /\ Continues(t, [calls[t] EXCEPT !.pc = "wait", !.insert = NoNode], calls[t].key)
  /\ UNCHANGED <<container, aborted, deleted, node_, zip_vars>>

\* port::RWLockWRGuard splay_guard(&rwlock_) (line 135)
InsertLock(t) ==
  /\ Running
  /\ calls[t].pc = "wait"
  /\ MayLockExclusive
  /\ Continues(t, [calls[t] EXCEPT !.pc = "splay"], calls[t].key)
  /\ UNCHANGED <<container, aborted, splay_vars, zip_vars>>

\* the parent, the grandparent and the great-grandparent of n, the nodes an
\* iteration of Splay's loop reads and writes besides n and its children
RECURSIVE Elders(_, _, _)
Elders(N, n, d) ==
  IF d = 0 \/ N[n].parent = Null THEN {}
  ELSE IF N[n].parent \in StaleAddr THEN {N[n].parent}
  ELSE {N[n].parent} \cup Elders(N, N[n].parent, d - 1)

\* an iteration of the loop of Splay(n) would read a released block
ReadsReleased(N, n) == Elders(N, n, 3) \cap StaleAddr # {}

\* one iteration of the while loop of Splay(insert) (line 139)
InsertSplay(t) ==
  /\ Running
  /\ calls[t].pc = "splay" /\ ~calls[t].freed
  /\ nodes[calls[t].key].parent # Null
  /\ ~ReadsReleased(nodes, calls[t].key)
  /\ Leaves(SplayStep(Tree, calls[t].key))
  /\ Continues(t, calls[t], calls[t].key)
  /\ UNCHANGED <<container, aborted, deleted, node_, zip_vars>>

\* insert->inserted = true; ++size_ (lines 140-141)
MarkInserted(T, a) ==
  [T EXCEPT !.nodes = [T.nodes EXCEPT ![a].inserted = TRUE], !.size_ = T.size_ + 1]

\* the loop of Splay(insert) has ended: insert->inserted = true; ++size_;
\* the exclusive lock is released and Insert returns (lines 140-144)
InsertReturn(t) ==
  /\ Running
  /\ calls[t].pc = "splay" /\ ~calls[t].freed
  /\ nodes[calls[t].key].parent = Null
  /\ Leaves(MarkInserted(Tree, calls[t].key))
  /\ Continues(t, NoCall, calls[t].key)
  /\ UNCHANGED <<container, aborted, deleted, node_, zip_vars>>

\* the step belongs to Delete(key), which has returned ret (Null: not yet)
DeleteStep(key, ret) == op' = [name |-> "Delete", key |-> key, ret |-> ret]

\* lines 154-157 of Delete(key): n = Find(key), the search of Contains;
\* Delete returns false when n is null
DeleteFind(t, key) ==
  /\ Running
  /\ calls[t].pc = "idle"
  /\ MayLockShared
  /\ Bind(Find(Tree, key), LAMBDA n :
       IF n = Null
       THEN calls' = calls /\ DeleteStep(key, FALSE)
       ELSE /\ calls' = [calls EXCEPT ![t] = [NoCall EXCEPT !.pc = "found", !.key = key,
                                                           !.n = n]]
            /\ DeleteStep(key, Null))
  /\ UNCHANGED <<container, aborted, splay_vars, zip_vars>>

\* port::RWLockWRGuard delete_guard(&rwlock_) (line 159)
DeleteLock(t) ==
  /\ Running
  /\ calls[t].pc = "found"
  /\ MayLockExclusive
  /\ calls' = [calls EXCEPT ![t].pc = "unlink"]
  /\ DeleteStep(calls[t].key, Null)
  /\ UNCHANGED <<container, aborted, splay_vars, zip_vars>>

\* one iteration of the while loop of Splay(n) (line 160)
DeleteSplay(t) ==
  /\ Running
  /\ calls[t].pc = "unlink" /\ ~calls[t].freed
  /\ nodes[calls[t].n].parent # Null
  /\ ~ReadsReleased(nodes, calls[t].n)
  /\ Leaves(SplayStep(Tree, calls[t].n))
  /\ DeleteStep(calls[t].key, Null)
  /\ UNCHANGED <<container, aborted, deleted, node_, zip_vars, calls>>

\* the calls after thread t has deleted node a: t is in no call, and the
\* pointer to a that another call holds dangles
Deleted(t, a) ==
  [u \in Thread |->
     IF u = t THEN NoCall
     ELSE IF (calls[u].pc = "found" /\ calls[u].n = a)
             \/ (calls[u].pc = "wait" /\ calls[u].key = a)
     THEN [calls[u] EXCEPT !.freed = TRUE]
     ELSE calls[u]]

\* the loop of Splay(n) has ended: lines 161-221 of Delete, which returns
\* true
DeleteUnlink(t) ==
  /\ Running
  /\ calls[t].pc = "unlink" /\ ~calls[t].freed
  /\ nodes[calls[t].n].parent = Null
  /\ Bind(Unlink(Tree, calls[t].n), LAMBDA T1 :
       /\ ~T1.violated
       /\ Leaves(With(T1, Release(T1.nodes, calls[t].n))))
  /\ deleted' = TRUE
  /\ calls' = Deleted(t, calls[t].n)
  /\ DeleteStep(calls[t].key, TRUE)
  /\ UNCHANGED <<container, aborted, node_, zip_vars>>

\* lines 161-221 of Delete in which an assert() fails: the process aborts
DeleteAbort(t) ==
  /\ Running
  /\ calls[t].pc = "unlink" /\ ~calls[t].freed
  /\ nodes[calls[t].n].parent = Null
  /\ Unlink(Tree, calls[t].n).violated
  /\ aborted' = TRUE
  /\ DeleteStep(calls[t].key, Null)
  /\ UNCHANGED <<container, splay_vars, zip_vars, calls>>

\* the node the call of thread t splays
Splayed(t) == IF calls[t].pc = "splay" THEN calls[t].key ELSE calls[t].n

\* Splay(n) of a node that has been deleted, or below one, reads released
\* memory.  One outcome: the process aborts (a memory fault, or
\* assert(root_ == n) at line 161).  When only a node above n has been
\* deleted the other outcome modelled is that the loop does not end.
DanglingAbort(t) ==
  /\ Running
  /\ calls[t].pc \in {"splay", "unlink"}
  /\ calls[t].freed \/ ReadsReleased(nodes, Splayed(t))
  /\ aborted' = TRUE
  /\ op' = [name |-> IF calls[t].pc = "splay" THEN "Insert" ELSE "Delete",
            key |-> calls[t].key, ret |-> Null]
  /\ UNCHANGED <<container, splay_vars, zip_vars, calls>>

\* Another outcome, asserts compiled out: the released block still holds
\* what Delete left in it, parent and both children null.  Splay(n) returns
\* at once, line 164 sets root_ = n->child[kRight], and Delete decrements
\* size_ (kept as its residue modulo 2^64 next to 0) and returns true.
DanglingDelete(t) ==
  /\ Running
  /\ calls[t].pc = "unlink" /\ calls[t].freed
  /\ root_' = Null
  /\ size_' = size_ - 1
  /\ calls' = [calls EXCEPT ![t] = NoCall]
  /\ DeleteStep(calls[t].key, TRUE)
  /\ UNCHANGED <<container, aborted, nodes, deleted, node_, zip_vars>>

\* The same outcome in Insert: Splay(insert) returns at once, inserted is
\* written into the released block, size_ is incremented and Insert returns.
DanglingInsert(t) ==
  /\ Running
  /\ calls[t].pc = "splay" /\ calls[t].freed
  /\ size_' = size_ + 1
  /\ Continues(t, NoCall, calls[t].key)
  /\ UNCHANGED <<container, aborted, root_, nodes, deleted, node_, zip_vars>>

\* a call that takes the shared lock, returns r and changes nothing
Reads(name, arg, r) ==
  /\ Running
  /\ MayLockShared
  /\ op' = [name |-> name, key |-> arg, ret |-> r]
  /\ UNCHANGED <<container, aborted, splay_vars, zip_vars, calls>>

NextShared ==
  \/ \E t \in Thread : \E key \in SharedKeys : InsertBegin(t, key)
  \/ \E t \in Thread : InsertDescend(t)
  \/ \E t \in Thread : InsertStore(t)
  \/ \E t \in Thread : InsertLock(t)
  \/ \E t \in Thread : InsertSplay(t)
  \/ \E t \in Thread : InsertReturn(t)
  \/ \E t \in Thread : \E key \in SharedKeys : DeleteFind(t, key)
  \/ \E t \in Thread : DeleteLock(t)
  \/ \E t \in Thread : DeleteSplay(t)
  \/ \E t \in Thread : DeleteUnlink(t)
  \/ \E t \in Thread : DeleteAbort(t)
  \/ \E t \in Thread : DanglingAbort(t)
  \/ \E t \in Thread : DanglingDelete(t)
  \/ \E t \in Thread : DanglingInsert(t)
  \/ \E key \in SharedKeys : Reads("Contains", key, Contains(Tree, key))
  \/ Reads("First", Null, First(Tree))
  \/ Reads("Last", Null, Last(Tree))
  \/ \E n \in Keys : nodes[n].inserted /\ \E r \in UnlockNext(nodes, n) : Reads("Next", n, r)
  \/ \E n \in Keys : nodes[n].inserted /\ \E r \in UnlockPrev(nodes, n) : Reads("Prev", n, r)
  \/ \E key \in SharedKeys :
       \E r \in UnlockFindGreaterOrEqual(Tree, key) : Reads("FindGreaterOrEqual", key, r)

\* ---- threads that share a ZipTree ------------------------------------

InitSharedZip ==
  /\ container = "SharedZipTree"
  /\ aborted = FALSE
  /\ root_ = Null
  /\ size_ = 0
  /\ nodes = [a \in Keys |-> NoNode]
  /\ deleted = FALSE
  /\ node_ = Null
  /\ zip = [root_ |-> Null, nodes |-> <<>>]
  /\ zip_node_ = Null
  /\ calls = [t \in Thread |-> NoCall]
  /\ op = [name |-> "new", key |-> Null, ret |-> Null]

\* the threads that hold mu_ shared between two steps: a Seek call that
\* has reached its call of Next() (line 256)
ZipHolders == {t \in Thread : calls[t].pc \in {"relock", "blocked"}}

\* the threads that have requested mu_ exclusively and wait for it: an
\* Insert call at line 288
ZipWaiters == {t \in Thread : calls[t].pc = "lock"}

ZipRunning == container = "SharedZipTree" /\ ~aborted

\* thread t may call a method of the iterator: no other thread is inside
\* one
MayIterate(t) == calls[t].pc = "idle" /\ ZipHolders = {}

\* Insert(key) requests std::unique_lock(mu_) (line 288)
ZipInsertRequest(t, key) ==
  /\ ZipRunning
  /\ calls[t].pc = "idle"
  /\ Len(zip.nodes) + Cardinality(ZipWaiters) < MaxZipNodes
  /\ calls' = [calls EXCEPT ![t] = [NoCall EXCEPT !.pc = "lock", !.key = key]]
  /\ op' = [name |-> "Insert", key |-> key, ret |-> Null]
  /\ UNCHANGED <<container, aborted, splay_vars, zip_vars>>

\* mu_ is granted exclusively, no thread holding it: lines 289-291 of
\* Insert, RandomRank() returning rank; the lock is released on return
ZipInsertRun(t, rank) ==
  /\ ZipRunning
  /\ calls[t].pc = "lock"
  /\ ZipHolders = {}
  /\ zip' = ZipInsert(zip, calls[t].key, rank)
  /\ calls' = [calls EXCEPT ![t] = NoCall]
  /\ op' = [name |-> "Insert", key |-> calls[t].key, ret |-> rank]
  /\ UNCHANGED <<container, aborted, splay_vars, zip_node_>>

\* a method of the iterator that takes mu_ shared once, leaves the iterator
\* on R.node_ and releases mu_, unless an assert() failed
ZipMoves(name, arg, R) ==
  /\ ZipRunning
  /\ aborted' \in (IF R.violated THEN BOOLEAN ELSE {FALSE})
  /\ zip_node_' = R.node_
  /\ op' = [name |-> name, key |-> arg, ret |-> R.node_]
  /\ UNCHANGED <<container, splay_vars, zip, calls>>

\* Seek(target) in which Next() is not called (lines 239-254)
ZipSeekReturns(t, target) ==
  /\ MayIterate(t)
  /\ Bind(SeekWalk(zip.nodes, zip.root_, zip_node_, target), LAMBDA W :
       /\ IF W.found \/ W.node_ = Null THEN TRUE
          ELSE compare_(target, zip.nodes[W.node_].key) <= 0
       /\ ZipMoves("Seek", target, [node_ |-> W.node_, violated |-> FALSE]))

\* Seek(target) up to its call of Next() (lines 239-256): the thread holds
\* mu_ shared
ZipSeekCallsNext(t, target) ==
  /\ ZipRunning
  /\ MayIterate(t)
  /\ Bind(SeekWalk(zip.nodes, zip.root_, zip_node_, target), LAMBDA W :
       /\ IF W.found \/ W.node_ = Null THEN FALSE
          ELSE compare_(target, zip.nodes[W.node_].key) > 0
       /\ zip_node_' = W.node_)
  /\ calls' = [calls EXCEPT ![t] = [NoCall EXCEPT !.pc = "relock", !.key = target]]
  /\ op' = [name |-> "Seek", key |-> target, ret |-> Null]
  /\ UNCHANGED <<container, aborted, splay_vars, zip>>

\* Next(), called by Seek, requests mu_ shared (line 181) in the thread that
\* holds it shared: undefined for std::shared_mutex.  One outcome: the
\* request is granted, Next() moves the iterator, both locks are released.
ZipSeekNext(t) ==
  /\ ZipRunning
  /\ calls[t].pc = "relock"
  /\ Bind(ZipNext(zip, zip_node_), LAMBDA R :
       /\ aborted' \in (IF R.violated THEN BOOLEAN ELSE {FALSE})
       /\ zip_node_' = R.node_
       /\ op' = [name |-> "Seek", key |-> calls[t].key, ret |-> R.node_])
  /\ calls' = [calls EXCEPT ![t] = NoCall]
  /\ UNCHANGED <<container, splay_vars, zip>>

\* The other outcome, an Insert waiting for mu_: the request queues behind
\* the exclusive request, which waits for the shared lock of this thread.
ZipSeekBlocks(t) ==
  /\ ZipRunning
  /\ calls[t].pc = "relock"
  /\ ZipWaiters # {}
  /\ calls' = [calls EXCEPT ![t].pc = "blocked"]
  /\ op' = [name |-> "Seek", key |-> calls[t].key, ret |-> Null]
  /\ UNCHANGED <<container, aborted, splay_vars, zip_vars>>

NextSharedZip ==
  \/ \E t \in Thread : \E key \in ZipKeys : ZipInsertRequest(t, key)
  \/ \E t \in Thread : \E rank \in Ranks : ZipInsertRun(t, rank)
  \/ \E t \in Thread : MayIterate(t) /\
       ZipMoves("SeekToFirst", Null,
                [node_ |-> ZipSeekToFirst(zip, zip_node_), violated |-> FALSE])
  \/ \E t \in Thread : MayIterate(t) /\
       ZipMoves("SeekToLast", Null,
                [node_ |-> ZipSeekToLast(zip, zip_node_), violated |-> FALSE])
  \/ \E t \in Thread : MayIterate(t) /\ zip_node_ # Null /\
       ZipMoves("Next", zip_node_, ZipNext(zip, zip_node_))
  \/ \E t \in Thread : MayIterate(t) /\ zip_node_ # Null /\
       ZipMoves("Prev", zip_node_, [node_ |-> ZipPrev(zip, zip_node_), violated |-> FALSE])
  \/ \E t \in Thread : \E target \in ZipKeys : ZipSeekReturns(t, target)
  \/ \E t \in Thread : \E target \in ZipKeys : ZipSeekCallsNext(t, target)
  \/ \E t \in Thread : ZipSeekNext(t)
  \/ \E t \in Thread : ZipSeekBlocks(t)

NextSplayTree ==
  \/ CallIterator
  \/ \E key \in Keys : CallInsertEqual(key)
  \/ \E key \in Keys : \E b \in Reusable(nodes) : CallInsert(key, b)
  \/ \E key \in Keys : CallDelete(key)
  \/ \E key \in Keys : CallDeleteAbort(key)
  \/ CallSeekToFirst
  \/ CallSeekToLast
  \/ \E target \in Keys : CallSeek(target)
  \/ CallNext
  \/ CallPrev

NextZipTree ==
  \/ CallZipIterator
  \/ \E key \in ZipKeys : \E rank \in Ranks : CallZipInsert(key, rank)
  \/ CallZipSeekToFirst
  \/ CallZipSeekToLast
  \/ \E target \in ZipKeys : CallZipSeek(target)
  \/ CallZipNext
  \/ CallZipPrev

Next == NextSplayTree \/ NextZipTree

\* a caller of either container
Spec == Init /\ [][Next]_vars

\* a caller of the SplayTree
SpecSplayTree == InitSplayTree /\ [][NextSplayTree]_vars

\* a caller of the ZipTree
SpecZipTree == InitZipTree /\ [][NextZipTree]_vars

\* threads that call Insert and the reading methods of one SplayTree
SpecShared == InitShared /\ [][NextShared]_vars

\* threads that call Insert and the methods of an iterator of one ZipTree
SpecSharedZip == InitSharedZip /\ [][NextSharedZip]_vars

\* ---- what the claims speak of ------------------------------------------

\* the nodes of the subtree of n, by a walk of at most d levels
RECURSIVE Subtree(_, _, _)
Subtree(N, n, d) ==
  IF n = Null \/ d = 0 THEN {}
  ELSE {n} \cup Subtree(N, N[n].child[kLeft], d - 1)
           \cup Subtree(N, N[n].child[kRight], d - 1)

\* the nodes reachable from root_ and the keys they hold
InTree(T) == Subtree(T.nodes, T.root_, MaxKey + 1)

StoredKeys(T) == {T.nodes[n].key : n \in InTree(T)}

IsSearchTree(T) ==
  \A n \in InTree(T) :
    /\ \A m \in Subtree(T.nodes, T.nodes[n].child[kLeft], MaxKey + 1) :
         T.nodes[m].key < T.nodes[n].key
    /\ \A m \in Subtree(T.nodes, T.nodes[n].child[kRight], MaxKey + 1) :
         T.nodes[m].key > T.nodes[n].key
    /\ \A s \in {kLeft, kRight} :
         T.nodes[n].child[s] # Null => T.nodes[T.nodes[n].child[s]].parent = n

\* the least element of a non-empty set of numbers, and the greatest
Least(S) == CHOOSE x \in S : \A y \in S : x <= y

Greatest(S) == CHOOSE x \in S : \A y \in S : y <= x

\* the keys of S in ascending order
RECURSIVE Ascending(_)
Ascending(S) == IF S = {} THEN <<>> ELSE <<Least(S)>> \o Ascending(S \ {Least(S)})

RECURSIVE Descending(_)
Descending(S) ==
  IF S = {} THEN <<>> ELSE <<Greatest(S)>> \o Descending(S \ {Greatest(S)})

\* the node of T that holds key k, Null when k is Null
Holding(T, k) ==
  IF k = Null THEN Null ELSE CHOOSE n \in InTree(T) : T.nodes[n].key = k

\* the next larger and the next smaller key of a set, Null when there is none
Above(S, k) == IF {j \in S : j > k} = {} THEN Null ELSE Least({j \in S : j > k})

Below(S, k) == IF {j \in S : j < k} = {} THEN Null ELSE Greatest({j \in S : j < k})

AtLeast(S, k) == IF {j \in S : j >= k} = {} THEN Null ELSE Least({j \in S : j >= k})

\* the ancestors of n, nearest first, by a walk of at most d levels
RECURSIVE Ancestors(_, _, _)
Ancestors(N, n, d) ==
  IF d = 0 \/ N[n].parent = Null THEN <<>>
  ELSE <<N[n].parent>> \o Ancestors(N, N[n].parent, d - 1)

\* the first node of the sequence A whose key is on the given side of k
NearestAbove(N, A, k) ==
  IF \E i \in 1..Len(A) : N[A[i]].key > k
  THEN A[Least({i \in 1..Len(A) : N[A[i]].key > k})] ELSE Null

NearestBelow(N, A, k) ==
  IF \E i \in 1..Len(A) : N[A[i]].key < k
  THEN A[Least({i \in 1..Len(A) : N[A[i]].key < k})] ELSE Null

\* the ZipTree counterparts
RECURSIVE ZipSubtree(_, _, _)
ZipSubtree(N, n, d) ==
  IF n = Null \/ d = 0 THEN {}
  ELSE {n} \cup ZipSubtree(N, N[n].left, d - 1) \cup ZipSubtree(N, N[n].right, d - 1)

ZipInTree(Z) == ZipSubtree(Z.nodes, Z.root_, MaxZipNodes + 1)

ZipStoredKeys(Z) == {Z.nodes[n].key : n \in ZipInTree(Z)}

ZipHolding(Z, k) ==
  IF k = Null THEN Null ELSE CHOOSE n \in ZipInTree(Z) : Z.nodes[n].key = k

\* the keys passed to the ZipTree's Insert were pairwise distinct
ZipDistinct(Z) ==
  \A i, j \in 1..Len(Z.nodes) : Z.nodes[i].key = Z.nodes[j].key => i = j

ZipIsSearchTree(Z) ==
  \A n \in ZipInTree(Z) :
    /\ \A m \in ZipSubtree(Z.nodes, Z.nodes[n].left, MaxZipNodes + 1) :
         Z.nodes[m].key < Z.nodes[n].key
    /\ \A m \in ZipSubtree(Z.nodes, Z.nodes[n].right, MaxZipNodes + 1) :
         Z.nodes[m].key > Z.nodes[n].key

\* ---- C1 ----------------------------------------------------------------

\* C1: after every Insert and every Delete the SplayTree reachable from
\* root_ is a strict binary search tree: the keys of a node's left subtree
\* are smaller than its key, those of its right subtree greater, and the
\* parent pointer of each child names the node.
C1_SplayIsSearchTree == container = "SplayTree" => IsSearchTree(Tree)

\* a Delete has removed a node with two children and left three nodes
C1_Witness ==
  /\ op.name = "Delete" /\ op.ret = TRUE /\ size_ = 3
  /\ Cardinality(InTree(Tree)) = 3
  /\ nodes[root_].child[kLeft] # Null /\ nodes[root_].child[kRight] # Null

\* ---- C2 ----------------------------------------------------------------

\* C2: after every Insert, for every sequence of keys and ranks, the ZipTree
\* reachable from root_ is a strict binary search tree.
C2_ZipIsSearchTree == container = "ZipTree" => ZipIsSearchTree(zip)

\* ---- C3 ----------------------------------------------------------------

\* C3: Insert(k) of a key that is not in the SplayTree returns with root_
\* the node holding k, that node without parent and with its inserted flag
\* set, and Size() one more than before.
C3_InsertNewKey ==
  [][(op'.name = "Insert" /\ container = "SplayTree"
        /\ op'.key \notin StoredKeys(Tree))
     => /\ root_' # Null
        /\ nodes'[root_'].key = op'.key
        /\ nodes'[root_'].parent = Null
        /\ nodes'[root_'].inserted
        /\ size_' = size_ + 1]_vars

\* an Insert of a new key into a tree of three nodes has returned
C3_Witness ==
  /\ op.name = "Insert" /\ op.ret = TRUE /\ size_ = 4
  /\ container = "SplayTree" /\ root_ = op.key

\* ---- C4 ----------------------------------------------------------------

\* every node's ancestor_next is its in-order successor and its
\* ancestor_prev its in-order predecessor
TrueNeighbours(T) ==
  \A n \in InTree(T) :
    /\ T.nodes[n].ancestor_next = Holding(T, Above(StoredKeys(T), T.nodes[n].key))
    /\ T.nodes[n].ancestor_prev = Holding(T, Below(StoredKeys(T), T.nodes[n].key))

\* every node's ancestor_next is its nearest ancestor with a greater key and
\* its ancestor_prev its nearest ancestor with a smaller key
AncestorNeighbours(T) ==
  \A n \in InTree(T) :
    /\ T.nodes[n].ancestor_next =
         NearestAbove(T.nodes, Ancestors(T.nodes, n, MaxKey + 1), T.nodes[n].key)
    /\ T.nodes[n].ancestor_prev =
         NearestBelow(T.nodes, Ancestors(T.nodes, n, MaxKey + 1), T.nodes[n].key)

\* C4, as claimed: after any sequence of Insert and Delete calls every
\* node's ancestor_next is its true in-order successor and its ancestor_prev
\* its true in-order predecessor.
C4_TrueNeighbours == container = "SplayTree" => TrueNeighbours(Tree)

\* C4, amended: as long as no Delete has removed a node, every node's
\* ancestor_next is its nearest ancestor with a greater key and its
\* ancestor_prev its nearest ancestor with a smaller key (null when there is
\* none); for a node without right (left) child that is its in-order
\* successor (predecessor).
C4_AncestorNeighbours ==
  (container = "SplayTree" /\ ~deleted) =>
    /\ AncestorNeighbours(Tree)
    /\ \A n \in InTree(Tree) :
         /\ nodes[n].child[kRight] = Null =>
              nodes[n].ancestor_next = Holding(Tree, Above(StoredKeys(Tree), nodes[n].key))
         /\ nodes[n].child[kLeft] = Null =>
              nodes[n].ancestor_prev = Holding(Tree, Below(StoredKeys(Tree), nodes[n].key))

\* four keys have been inserted, and the root has both children
C4_Witness ==
  /\ container = "SplayTree" /\ ~deleted /\ size_ = 4 /\ op.name = "Insert"
  /\ nodes[root_].child[kLeft] # Null /\ nodes[root_].child[kRight] # Null

\* ---- C5 ----------------------------------------------------------------

\* C5: after every Insert every ZipTree node's rank is greater than or equal
\* to its right child's rank and strictly greater than its left child's.
C5_ZipHeapOrder ==
  container = "ZipTree" =>
    \A n \in ZipInTree(zip) :
      /\ zip.nodes[n].right # Null =>
           zip.nodes[n].rank >= zip.nodes[zip.nodes[n].right].rank
      /\ zip.nodes[n].left # Null =>
           zip.nodes[n].rank > zip.nodes[zip.nodes[n].left].rank

\* three nodes are in the ZipTree, the root with equal rank as its right
\* child and two children
C5_Witness ==
  /\ container = "ZipTree" /\ op.name = "Insert" /\ Len(zip.nodes) = 3
  /\ zip.nodes[zip.root_].left # Null /\ zip.nodes[zip.root_].right # Null
  /\ zip.nodes[zip.root_].rank = zip.nodes[zip.nodes[zip.root_].right].rank

\* ---- C6 ----------------------------------------------------------------

\* the keys met by SeekToFirst and then Next until the iterator is invalid,
\* at most d of them
RECURSIVE ScanNext(_, _, _)
ScanNext(T, n, d) ==
  IF n = Null \/ d = 0 THEN <<>>
  ELSE <<T.nodes[n].key>>
         \o ScanNext(T, CHOOSE r \in UnlockNext(T.nodes, n) : TRUE, d - 1)

RECURSIVE ScanPrev(_, _, _)
ScanPrev(T, n, d) ==
  IF n = Null \/ d = 0 THEN <<>>
  ELSE <<T.nodes[n].key>>
         \o ScanPrev(T, CHOOSE r \in UnlockPrev(T.nodes, n) : TRUE, d - 1)

RECURSIVE ZipScanNext(_, _, _)
ZipScanNext(Z, n, d) ==
  IF n = Null \/ d = 0 THEN <<>>
  ELSE <<Z.nodes[n].key>> \o ZipScanNext(Z, ZipNext(Z, n).node_, d - 1)

RECURSIVE ZipScanPrev(_, _, _)
ZipScanPrev(Z, n, d) ==
  IF n = Null \/ d = 0 THEN <<>>
  ELSE <<Z.nodes[n].key>> \o ZipScanPrev(Z, ZipPrev(Z, n), d - 1)

SplayIterates(T) ==
  /\ \A n \in InTree(T) :
       /\ UnlockNext(T.nodes, n) = {Holding(T, Above(StoredKeys(T), T.nodes[n].key))}
       /\ UnlockPrev(T.nodes, n) = {Holding(T, Below(StoredKeys(T), T.nodes[n].key))}
  /\ ScanNext(T, First(T), MaxKey + 1) = Ascending(StoredKeys(T))
  /\ ScanPrev(T, Last(T), MaxKey + 1) = Descending(StoredKeys(T))

ZipIterates(Z) ==
  /\ \A n \in ZipInTree(Z) :
       /\ ZipNext(Z, n).node_ = ZipHolding(Z, Above(ZipStoredKeys(Z), Z.nodes[n].key))
       /\ ZipPrev(Z, n) = ZipHolding(Z, Below(ZipStoredKeys(Z), Z.nodes[n].key))
  /\ ZipScanNext(Z, ZipSeekToFirst(Z, Null), MaxZipNodes + 1)
       = Ascending(ZipStoredKeys(Z))
  /\ ZipScanPrev(Z, ZipSeekToLast(Z, Null), MaxZipNodes + 1)
       = Descending(ZipStoredKeys(Z))

\* C6: in a SplayTree and in a ZipTree built by inserting pairwise distinct
\* keys (any order, any ranks), Next moves from any stored key to the next
\* larger stored key and becomes invalid at the maximum, Prev moves to the
\* next smaller one and becomes invalid at the minimum; SeekToFirst and
\* repeated Next yield exactly the stored keys in ascending order,
\* SeekToLast and repeated Prev yield them in descending order.
C6_Iteration ==
  /\ (container = "SplayTree" /\ ~deleted) =>
       /\ SplayIterates(Tree)
       /\ op.name = "Next" =>
            node_ = Holding(Tree, Above(StoredKeys(Tree), nodes[op.key].key))
       /\ op.name = "Prev" =>
            node_ = Holding(Tree, Below(StoredKeys(Tree), nodes[op.key].key))
  /\ (container = "ZipTree" /\ ZipDistinct(zip)) =>
       /\ ZipIterates(zip)
       /\ op.name = "Next" =>
            zip_node_ = ZipHolding(zip, Above(ZipStoredKeys(zip), zip.nodes[op.key].key))
       /\ op.name = "Prev" =>
            zip_node_ = ZipHolding(zip, Below(ZipStoredKeys(zip), zip.nodes[op.key].key))

\* Next has moved the iterator of a SplayTree of four inserted keys from a
\* node without right child to the node's successor
C6_Witness ==
  /\ container = "SplayTree" /\ ~deleted /\ size_ = 4
  /\ op.name = "Next" /\ node_ # Null
  /\ nodes[op.key].child[kRight] = Null

\* ---- C7 ----------------------------------------------------------------

\* C7: in a SplayTree and in a ZipTree built from distinct keys, for every
\* target, Seek(target) leaves the iterator on the smallest stored key that
\* is greater than or equal to target, and invalid when target is greater
\* than every stored key.
C7_Seek ==
  /\ (container = "SplayTree" /\ ~deleted) =>
       /\ \A target \in Keys :
            UnlockFindGreaterOrEqual(Tree, target)
              = {Holding(Tree, AtLeast(StoredKeys(Tree), target))}
       /\ op.name = "Seek" =>
            node_ = Holding(Tree, AtLeast(StoredKeys(Tree), op.key))
  /\ (container = "ZipTree" /\ ZipDistinct(zip)) =>
       /\ \A target \in ZipKeys : \A c \in ZipInTree(zip) \cup {Null} :
            ZipSeek(zip, c, target).node_
              = ZipHolding(zip, AtLeast(ZipStoredKeys(zip), target))
       /\ op.name = "Seek" =>
            zip_node_ = ZipHolding(zip, AtLeast(ZipStoredKeys(zip), op.key))

\* Seek of a key that is not stored has left the ZipTree iterator on a
\* larger key
C7_Witness ==
  /\ container = "ZipTree" /\ ZipDistinct(zip) /\ Len(zip.nodes) = 2
  /\ op.name = "Seek" /\ op.key \notin ZipStoredKeys(zip)
  /\ zip_node_ # Null

\* ---- C8 ----------------------------------------------------------------

\* C8: after any sequence of Insert and Delete calls, Delete(k) of a key
\* that is in the SplayTree returns true, decreases Size() by exactly 1,
\* makes Contains(k) false and leaves Contains(j) true for every other key
\* j that was in the tree.
C8_DeleteStoredKey ==
  [][(op'.name = "Delete" /\ container = "SplayTree"
        /\ op'.key \in StoredKeys(Tree))
     => /\ ~aborted' /\ op'.ret = TRUE
        /\ size_' = size_ - 1
        /\ ~Contains(Tree', op'.key)
        /\ \A j \in StoredKeys(Tree) \ {op'.key} : Contains(Tree', j)]_vars

\* ---- C9 ----------------------------------------------------------------

\* C9: Delete(k) of a key that is not in the SplayTree returns false and
\* leaves root_, every node's parent, child and ancestor_prev/ancestor_next
\* pointers, and Size() unchanged.
C9_DeleteAbsentKey ==
  [][(op'.name = "Delete" /\ container = "SplayTree"
        /\ op'.key \notin StoredKeys(Tree))
     => /\ op'.ret = FALSE
        /\ root_' = root_
        /\ nodes' = nodes
        /\ size_' = size_]_vars

\* Delete of an absent key has returned on a tree of three nodes
C9_Witness ==
  /\ container = "SplayTree" /\ op.name = "Delete" /\ op.ret = FALSE
  /\ size_ = 3 /\ op.key \notin StoredKeys(Tree)

\* ---- C10 ---------------------------------------------------------------

\* C10: Insert(k) of a key equal to a key already in the SplayTree leaves
\* Size(), root_ and every existing node's parent, child and
\* ancestor_prev/ancestor_next pointers unchanged, and the node allocated
\* for the call is not linked into the tree.
C10_InsertEqualKey ==
  [][(op'.name = "Insert" /\ container = "SplayTree"
        /\ op'.key \in StoredKeys(Tree))
     => /\ size_' = size_
        /\ root_' = root_
        /\ nodes' = nodes
        /\ InTree(Tree') = InTree(Tree)]_vars

\* Insert of a key that is stored below the root has returned
C10_Witness ==
  /\ container = "SplayTree" /\ op.name = "Insert" /\ op.ret = FALSE
  /\ size_ = 3 /\ op.key \in StoredKeys(Tree) /\ root_ # op.key

\* ---- C11 ---------------------------------------------------------------

\* the tree below n as a value: key, rank and the two subtrees
RECURSIVE Shape(_, _, _)
Shape(N, n, d) ==
  IF n = Null \/ d = 0 THEN <<>>
  ELSE <<N[n].key, N[n].rank, Shape(N, N[n].left, d - 1), Shape(N, N[n].right, d - 1)>>

\* C11: ZipTree Insert(k) of a key equal to a key already in the tree is
\* rejected: size() is unchanged, no new node becomes reachable from root_
\* and every existing node's left, right and parent pointers are unchanged.
C11_ZipInsertEqualKey ==
  [][(op'.name = "Insert" /\ container = "ZipTree"
        /\ op'.key \in ZipStoredKeys(zip))
     => /\ size(zip'.nodes, zip'.root_) = size(zip.nodes, zip.root_)
        /\ Cardinality(ZipInTree(zip')) = Cardinality(ZipInTree(zip))
        /\ Shape(zip'.nodes, zip'.root_, MaxZipNodes + 1)
             = Shape(zip.nodes, zip.root_, MaxZipNodes + 1)]_vars

\* ---- C12 ---------------------------------------------------------------

\* the nodes a reader reaches from n through nodes whose inserted flag is
\* set, by a walk of at most d levels
RECURSIVE Visible(_, _, _)
Visible(N, n, d) ==
  IF n = Null \/ d = 0 THEN {}
  ELSE IF ~N[n].inserted THEN {}
  ELSE {n} \cup Visible(N, N[n].child[kLeft], d - 1)
           \cup Visible(N, N[n].child[kRight], d - 1)

\* the keys whose Insert call has returned
Committed == {k \in Keys : nodes[k].inserted}

\* C12: whenever a reader can hold the shared lock while other threads are
\* in Insert, every key whose Insert has returned is reachable from root_
\* through nodes whose inserted flag is set, and FindGreaterOrEqual of the
\* key (Seek) returns its node.
C12_CommittedVisible ==
  (container = "SharedSplayTree" /\ MayLockShared) =>
    \A k \in Committed :
      /\ k \in Visible(nodes, root_, MaxKey + 1)
      /\ UnlockFindGreaterOrEqual(Tree, k) = {k}

\* ---- C13 ---------------------------------------------------------------

\* the keys of the tree with their ranks
ZipPairs(Z) == {[key |-> Z.nodes[n].key, rank |-> Z.nodes[n].rank] : n \in ZipInTree(Z)}

\* the pair of S that must be the root: the greatest rank, and among equal
\* ranks the smallest key
Top(S) ==
  CHOOSE p \in S : \A q \in S : q.rank < p.rank \/ (q.rank = p.rank /\ q.key >= p.key)

\* the tree over the pairs S as a value, built from the keys and ranks alone
RECURSIVE Treap(_)
Treap(S) ==
  IF S = {} THEN <<>>
  ELSE <<Top(S).key, Top(S).rank,
         Treap({q \in S : q.key < Top(S).key}),
         Treap({q \in S : q.key > Top(S).key})>>

\* every node's parent pointer names the node whose child it is
ZipParentsRight(Z) ==
  /\ Z.root_ # Null => Z.nodes[Z.root_].parent = Null
  /\ \A n \in ZipInTree(Z) :
       /\ Z.nodes[n].left # Null => Z.nodes[Z.nodes[n].left].parent = n
       /\ Z.nodes[n].right # Null => Z.nodes[Z.nodes[n].right].parent = n

\* C13: for a set of distinct keys with a rank fixed to each key the ZipTree
\* is the same (same root, same left, right and parent pointer of every
\* node) whatever the order in which the keys were inserted: it is the tree
\* the keys and ranks determine.
C13_ZipShapeDetermined ==
  (container = "ZipTree" /\ ZipDistinct(zip)) =>
    /\ Shape(zip.nodes, zip.root_, MaxZipNodes + 1) = Treap(ZipPairs(zip))
    /\ ZipParentsRight(zip)
    /\ Cardinality(ZipInTree(zip)) = Len(zip.nodes)

\* the third of three distinct keys, the middle one, has been inserted and
\* has become the root above the two others
C13_Witness ==
  /\ container = "ZipTree" /\ ZipDistinct(zip) /\ Len(zip.nodes) = 3
  /\ op.name = "Insert" /\ zip.nodes[zip.root_].key = op.key
  /\ zip.nodes[zip.root_].left # Null /\ zip.nodes[zip.root_].right # Null

\* ---- C14 ---------------------------------------------------------------

ZipHeapOrder(Z) ==
  \A n \in ZipInTree(Z) :
    /\ Z.nodes[n].right # Null => Z.nodes[n].rank >= Z.nodes[Z.nodes[n].right].rank
    /\ Z.nodes[n].left # Null => Z.nodes[n].rank > Z.nodes[Z.nodes[n].left].rank

\* C14: in every state reachable by Insert calls, CheckConsistency() returns
\* true only if the tree is a strict search tree over whole subtrees, has
\* correct parent pointers and is heap-ordered by rank.
C14_CheckConsistencySound ==
  (container = "ZipTree" /\ CheckConsistency(zip.nodes, zip.root_)) =>
    /\ ZipIsSearchTree(zip)
    /\ ZipParentsRight(zip)
    /\ ZipHeapOrder(zip)

\* ---- C15 ---------------------------------------------------------------

\* C15: a node returned by First, Last, Next, Prev or FindGreaterOrEqual
\* has its inserted flag set when it is returned, whatever the Insert
\* calls of the other threads have done so far.
C15_ReturnedNodesInserted ==
  (container = "SharedSplayTree"
     /\ op.name \in {"First", "Last", "Next", "Prev", "FindGreaterOrEqual"}
     /\ op.ret # Null)
  => nodes[op.ret].inserted

\* ---- C16 ---------------------------------------------------------------

\* C16: Contains(k) returns true only if a node holding k is in the tree,
\* whatever the Insert calls of the other threads have done so far.
C16_ContainsOnlyStored ==
  (container = "SharedSplayTree" /\ op.name = "Contains")
  => (op.ret => op.key \in StoredKeys(Tree))

\* ---- C17 ---------------------------------------------------------------

\* the keys some Insert call has stored in the tree
Attached == {k \in Keys : nodes[k] # NoNode}

\* C17: when all the Insert calls of the threads, of pairwise distinct new
\* keys, have returned, every key is reachable from root_, Contains is true
\* of it, and size_ is the number of nodes reachable from root_.
C17_AllInsertsLand ==
  (container = "SharedSplayTree" /\ \A t \in Thread : calls[t].pc = "idle") =>
    /\ \A k \in Attached : k \in InTree(Tree) /\ Contains(Tree, k)
    /\ size_ = Cardinality(InTree(Tree))

\* ---- C18 ---------------------------------------------------------------

\* C18: the loop of Splay(insert), entered under the exclusive lock, ends:
\* an iteration that finds insert->parent non-null changes the tree, so
\* that the call goes on to return and to release the lock.
C18_SplayLoopEnds ==
  container = "SharedSplayTree" =>
    \A t \in Thread :
      (calls[t].pc = "splay" /\ nodes[calls[t].key].parent # Null)
        => SplayStep(Tree, calls[t].key) # Tree

\* ---- C19 ---------------------------------------------------------------

\* C19: in every sequence of Insert and Delete calls none of the assert
\* statements inside Delete fails.
C19_DeleteAssertsHold ==
  [][(op'.name = "Delete" /\ container = "SplayTree")
     => ~Delete(Tree, op'.key).tree.violated]_vars

\* ---- C20 ---------------------------------------------------------------

\* C20: after any sequence of Insert and Delete calls no node reachable from
\* root_ has an ancestor_prev or ancestor_next that refers to a node removed
\* by Delete, and the forward scan (SeekToFirst, repeated Next) and the
\* backward scan (SeekToLast, repeated Prev) visit exactly the keys in the
\* tree and then become invalid.
C20_NoStaleThreads ==
  container = "SplayTree" =>
    /\ \A n \in InTree(Tree) :
         nodes[n].ancestor_prev \notin StaleAddr /\ nodes[n].ancestor_next \notin StaleAddr
    /\ SplayIterates(Tree)

\* ---- C21 ---------------------------------------------------------------

\* C21: the node Delete(k) looked up at its start is still in the tree when
\* the call, holding the exclusive lock, splays and unlinks it: no Delete
\* call works on a node that another call has removed.
C21_DeleteNodeInTree ==
  container = "SharedSplayTree" =>
    \A t \in Thread :
      calls[t].pc = "unlink" => (~calls[t].freed /\ calls[t].n \in InTree(Tree))

\* ---- C22 ---------------------------------------------------------------

\* C22: a method of the ZipTree iterator takes mu_ shared once and releases
\* it before it returns: no thread requests mu_ while it holds it, and none
\* waits for mu_ behind an Insert that waits for this thread.
C22_LockRequestedOnce ==
  container = "SharedZipTree" =>
    \A t \in Thread : calls[t].pc \notin {"relock", "blocked"}

====
